---- MODULE Spec2Model ----
(***************************************************************************)
(* A model of the contact manager in src/08.py: the Field value types      *)
(* (Phone, Birthday), Record, AddressBook with its upcoming-birthday       *)
(* query, the pickle load/save boundary, the input_error decorator, the    *)
(* command handlers and the command loop of main().                        *)
(*                                                                         *)
(* Strings whose characters the code inspects (phones, dates) are          *)
(* sequences of one-character strings; the character "sup2" stands for     *)
(* U+00B2 SUPERSCRIPT TWO.  Names, which the code never inspects, are      *)
(* atomic strings.  A date is <<year, month, day>>; None is <<>>.          *)
(***************************************************************************)
EXTENDS Integers, Sequences, FiniteSets, TLC

VARIABLES book, store, pc, cmd, args, result, today

vars == <<book, store, pc, cmd, args, result, today>>

None == <<>>

(***************************************************************************)
(* Bounds of the model.                                                    *)
(***************************************************************************)
\* the most phones the whole book holds (the code has no limit)
MaxBookPhones == 3
\* the widest window, in days, asked of get_upcoming_birthdays
MaxWindow == 30

(***************************************************************************)
(* Characters and str methods.                                             *)
(***************************************************************************)
DecimalChars == {"0", "1", "2", "3", "4", "5", "6", "7", "8", "9"}

\* characters for which str.isdigit() is true but which are not decimal
\* digits (Numeric_Type=Digit): the superscript digits and the like
OtherDigitChars == {"sup2"}

DigitValue(c) ==
    CASE c = "0" -> 0 [] c = "1" -> 1 [] c = "2" -> 2 [] c = "3" -> 3
      [] c = "4" -> 4 [] c = "5" -> 5 [] c = "6" -> 6 [] c = "7" -> 7
      [] c = "8" -> 8 [] c = "9" -> 9

DigitChar(n) ==
    CASE n = 0 -> "0" [] n = 1 -> "1" [] n = 2 -> "2" [] n = 3 -> "3"
      [] n = 4 -> "4" [] n = 5 -> "5" [] n = 6 -> "6" [] n = 7 -> "7"
      [] n = 8 -> "8" [] n = 9 -> "9"

Rep(c, n) == [i \in 1..n |-> c]

\* str.isdigit(): non-empty and every character a digit
IsDigit(s) ==
    /\ Len(s) >= 1
    /\ \A i \in 1..Len(s) : s[i] \in DecimalChars \cup OtherDigitChars

Raise(exc, msg) == [exc |-> exc, msg |-> msg, value |-> None]

Return(value) == [exc |-> "none", msg |-> "", value |-> value]

\* Phone.__init__
PhoneInit(value) ==
    IF ~ (IsDigit(value) /\ Len(value) = 10)
    THEN Raise("ValueError", "The phone number must contain exactly 10 digits")
    ELSE Return(value)

(***************************************************************************)
(* datetime.date: the proleptic Gregorian calendar.                        *)
(***************************************************************************)
IsLeap(y) == (y % 4 = 0) /\ ((y % 100 # 0) \/ (y % 400 = 0))

DaysInMonth(y, m) ==
    IF m = 2 THEN (IF IsLeap(y) THEN 29 ELSE 28)
    ELSE IF m \in {4, 6, 9, 11} THEN 30 ELSE 31

DaysBeforeYear(y) ==
    (y - 1) * 365 + ((y - 1) \div 4) - ((y - 1) \div 100) + ((y - 1) \div 400)

RECURSIVE DaysBeforeMonth(_, _)
DaysBeforeMonth(y, m) ==
    IF m = 1 THEN 0 ELSE DaysBeforeMonth(y, m - 1) + DaysInMonth(y, m - 1)

\* date.toordinal(): 1 for 0001-01-01
ToOrdinal(d) == DaysBeforeYear(d[1]) + DaysBeforeMonth(d[1], d[2]) + d[3]

\* date.weekday(): Monday is 0, Sunday is 6
Weekday(d) == (ToOrdinal(d) + 6) % 7

IsDate(d) ==
    /\ d[1] \in 1..9999
    /\ d[2] \in 1..12
    /\ d[3] \in 1..DaysInMonth(d[1], d[2])

NextDay(d) ==
    IF d[3] < DaysInMonth(d[1], d[2]) THEN <<d[1], d[2], d[3] + 1>>
    ELSE IF d[2] < 12 THEN <<d[1], d[2] + 1, 1>>
    ELSE <<d[1] + 1, 1, 1>>

\* d + timedelta(days=n), n >= 0
RECURSIVE AddDays(_, _)
AddDays(d, n) == IF n = 0 THEN d ELSE AddDays(NextDay(d), n - 1)

\* (a - b).days
DaysBetween(a, b) == ToOrdinal(a) - ToOrdinal(b)

\* a < b on dates
DateLess(a, b) == ToOrdinal(a) < ToOrdinal(b)

\* date.replace(year=y): ValueError when the day does not exist in year y
ReplaceYear(d, y) ==
    IF IsDate(<<y, d[2], d[3]>>)
    THEN Return(<<y, d[2], d[3]>>)
    ELSE Raise("ValueError", "day is out of range for month")

(***************************************************************************)
(* strptime / strftime with the format "%d.%m.%Y".                         *)
(***************************************************************************)
RECURSIVE Number(_)
Number(f) ==
    IF Len(f) = 0 THEN 0
    ELSE 10 * Number(SubSeq(f, 1, Len(f) - 1)) + DigitValue(f[Len(f)])

AllDecimal(f) == \A i \in 1..Len(f) : f[i] \in DecimalChars

Dots(s) == {i \in 1..Len(s) : s[i] = "."}

\* datetime.strptime(value, "%d.%m.%Y").date(): the pattern is one or two
\* digits (01..31, 1..9), ".", one or two digits (01..12, 1..9), ".", exactly
\* four digits, with nothing left over; then the date must exist
Strptime(s) ==
    IF Cardinality(Dots(s)) # 2
    THEN Raise("ValueError", "time data does not match format")
    ELSE
      LET i1 == CHOOSE i \in Dots(s) : \A j \in Dots(s) : i <= j
          i2 == CHOOSE i \in Dots(s) : \A j \in Dots(s) : j <= i
          fd == SubSeq(s, 1, i1 - 1)
          fm == SubSeq(s, i1 + 1, i2 - 1)
          fy == SubSeq(s, i2 + 1, Len(s))
      IN  IF ~ ( /\ AllDecimal(fd) /\ AllDecimal(fm) /\ AllDecimal(fy)
                 /\ Len(fd) \in 1..2 /\ Number(fd) \in 1..31
                 /\ Len(fm) \in 1..2 /\ Number(fm) \in 1..12
                 /\ Len(fy) = 4 )
          THEN Raise("ValueError", "time data does not match format")
          ELSE IF ~ IsDate(<<Number(fy), Number(fm), Number(fd)>>)
          THEN Raise("ValueError", "day is out of range for month")
          ELSE Return(<<Number(fy), Number(fm), Number(fd)>>)

TwoDigits(n) == <<DigitChar(n \div 10), DigitChar(n % 10)>>

FourDigits(n) ==
    <<DigitChar(n \div 1000), DigitChar((n \div 100) % 10),
      DigitChar((n \div 10) % 10), DigitChar(n % 10)>>

\* date.strftime("%d.%m.%Y"), for the years 1000..9999
Strftime(d) ==
    TwoDigits(d[3]) \o <<".">> \o TwoDigits(d[2]) \o <<".">> \o FourDigits(d[1])

\* Birthday.__init__
BirthdayInit(value) ==
    LET r == Strptime(value)
    IN  IF r.exc # "none"
        THEN Raise("ValueError", "Invalid date format. Use DD.MM.YYYY")
        ELSE Return(r.value)

(***************************************************************************)
(* Record.  A record is [name, phones, birthday]; phones holds the values  *)
(* of its Phone objects in list order.  No Phone object is shared between  *)
(* two list positions (each add_phone constructs its own), so assigning    *)
(* phone_obj.value changes exactly one position.  An operation returns     *)
(* the record as it leaves it, or raises and leaves it as it was.          *)
(***************************************************************************)
\* Record.__init__
RecordInit(name) == [name |-> name, phones |-> <<>>, birthday |-> None]

\* a mutant of AddPhone: the new phone is put in front
AddPhoneFront(rec, phone) ==
    LET p == PhoneInit(phone)
    IN  IF p.exc # "none" THEN p
        ELSE Return([rec EXCEPT !.phones = <<p.value>> \o @])

\* Record.add_phone
AddPhone(rec, phone) ==
    LET p == PhoneInit(phone)
    IN  IF p.exc # "none" THEN p
        ELSE Return([rec EXCEPT !.phones = Append(@, p.value)])

\* a mutant of FindPhone: the last match instead of the first
FindPhoneLast(rec, phone) ==
    LET hits == {i \in 1..Len(rec.phones) : rec.phones[i] = phone}
    IN  IF hits = {} THEN 0 ELSE CHOOSE i \in hits : \A j \in hits : j <= i

\* Record.find_phone: the position of the first phone equal to `phone`,
\* 0 for None
FindPhone(rec, phone) ==
    LET hits == {i \in 1..Len(rec.phones) : rec.phones[i] = phone}
    IN  IF hits = {} THEN 0 ELSE CHOOSE i \in hits : \A j \in hits : i <= j

\* a mutant of EditPhone: the new phone is validated before the lookup
EditPhoneValidateFirst(rec, old_phone, new_phone) ==
    LET i == FindPhone(rec, old_phone)
        p == PhoneInit(new_phone)
    IN  IF p.exc # "none" THEN p
        ELSE IF i = 0 THEN Raise("ValueError", "Old phone number not found.")
        ELSE Return([rec EXCEPT !.phones[i] = p.value])

\* Record.edit_phone
EditPhone(rec, old_phone, new_phone) ==
    LET i == FindPhone(rec, old_phone)
    IN  IF i = 0 THEN Raise("ValueError", "Old phone number not found.")
        ELSE LET p == PhoneInit(new_phone)
             IN  IF p.exc # "none" THEN p
                 ELSE Return([rec EXCEPT !.phones[i] = p.value])

\* Record.add_birthday
AddBirthday(rec, birthday_str) ==
    LET b == BirthdayInit(birthday_str)
    IN  IF b.exc # "none" THEN b
        ELSE Return([rec EXCEPT !.birthday = b.value])

(***************************************************************************)
(* AddressBook: the records of self.data in the dict's (insertion) order;  *)
(* a record's key is its name.                                             *)
(***************************************************************************)
\* AddressBook.find: the position of the record under `name`, 0 for None
Find(b, name) ==
    IF \E i \in 1..Len(b) : b[i].name = name
    THEN CHOOSE i \in 1..Len(b) : b[i].name = name
    ELSE 0

\* AddressBook.add_record: an existing key keeps its place in the dict
AddRecord(b, rec) ==
    IF Find(b, rec.name) = 0 THEN Append(b, rec)
    ELSE [b EXCEPT ![Find(b, rec.name)] = rec]

\* a mutant of AdjustForWeekend: a Saturday moves one day only
AdjustForWeekendShort(d) ==
    IF Weekday(d) = 5 THEN AddDays(d, 1)
    ELSE IF Weekday(d) = 6 THEN AddDays(d, 1)
    ELSE d

\* get_upcoming_birthdays.adjust_for_weekend
AdjustForWeekend(d) ==
    IF Weekday(d) = 5 THEN AddDays(d, 2)
    ELSE IF Weekday(d) = 6 THEN AddDays(d, 1)
    ELSE d

\* the birthday's month and day in today's year, or in the next year when
\* that is before today
NextBirthday(bday, t) ==
    LET this == ReplaceYear(bday, t[1])
    IN  IF this.exc # "none" THEN this
        ELSE IF DateLess(this.value, t) THEN ReplaceYear(this.value, t[1] + 1)
        ELSE this

RECURSIVE Upcoming(_, _, _, _, _)
Upcoming(b, t, days, i, upcoming) ==
    IF i > Len(b) THEN Return(upcoming)
    ELSE IF b[i].birthday = None THEN Upcoming(b, t, days, i + 1, upcoming)
    ELSE
      LET nb == NextBirthday(b[i].birthday, t)
      IN  IF nb.exc # "none" THEN nb
          ELSE
            LET next_birthday == AdjustForWeekend(nb.value)
                days_diff == DaysBetween(next_birthday, t)
            IN  Upcoming(b, t, days, i + 1,
                    IF 0 <= days_diff /\ days_diff <= days
                    THEN Append(upcoming,
                             [name |-> b[i].name,
                              congratulation_date |-> Strftime(next_birthday)])
                    ELSE upcoming)

\* AddressBook.get_upcoming_birthdays, with today = t
GetUpcomingBirthdays(b, t, days) == Upcoming(b, t, days, 1, <<>>)

(***************************************************************************)
(* Persistence: pickle as a stream of opcodes.  The store is the file      *)
(* SAVE_FILE: whether it exists, and its content.                          *)
(***************************************************************************)
PickleRecord(rec) ==
    <<[op |-> "RECORD", arg |-> rec.name],
      [op |-> "LIST", arg |-> Len(rec.phones)]>>
    \o [i \in 1..Len(rec.phones) |-> [op |-> "PHONE", arg |-> rec.phones[i]]]
    \o <<IF rec.birthday = None
         THEN [op |-> "NONE", arg |-> None]
         ELSE [op |-> "BIRTHDAY", arg |-> rec.birthday]>>

RECURSIVE PickleRecords(_)
PickleRecords(b) ==
    IF Len(b) = 0 THEN <<>> ELSE PickleRecord(Head(b)) \o PickleRecords(Tail(b))

\* pickle.dump(book, f): the stream of one pickled AddressBook
PickleDump(b) ==
    <<[op |-> "DICT", arg |-> Len(b)]>> \o PickleRecords(b)
    \o <<[op |-> "STOP", arg |-> None]>>

UnpickleRecord(bytes, pos) ==
    LET n == bytes[pos + 1].arg
        b == bytes[pos + 2 + n]
    IN  [rec  |-> [name     |-> bytes[pos].arg,
                   phones   |-> [i \in 1..n |-> bytes[pos + 1 + i].arg],
                   birthday |-> IF b.op = "NONE" THEN None ELSE b.arg],
         next |-> pos + 3 + n]

RECURSIVE UnpickleRecords(_, _, _, _)
UnpickleRecords(bytes, pos, n, acc) ==
    IF n = 0 THEN acc
    ELSE LET r == UnpickleRecord(bytes, pos)
         IN  UnpickleRecords(bytes, r.next, n - 1, Append(acc, r.rec))

\* pickle.load(f): the first pickled object of the stream
PickleLoad(bytes) == UnpickleRecords(bytes, 2, bytes[1].arg, <<>>)

NoFile == [exists |-> FALSE, bytes |-> <<>>]

\* a mutant of SaveData: the file is opened for appending
SaveDataAppend(b, st) == [exists |-> TRUE, bytes |-> st.bytes \o PickleDump(b)]

\* save_data: open(filename, "wb") truncates, then the book is dumped
SaveData(b, st) == [exists |-> TRUE, bytes |-> PickleDump(b)]

\* load_data: FileNotFoundError gives a new, empty AddressBook
LoadData(st) == IF ~ st.exists THEN <<>> ELSE PickleLoad(st.bytes)

(***************************************************************************)
(* Command handlers.  A handler's outcome is the book as it leaves it and  *)
(* either the message it returns or the exception it raises.  A message    *)
(* is [prefix, text, fields]: the text of the f-string after the prefix,   *)
(* and the values it interpolates.                                         *)
(***************************************************************************)
Msg(prefix, text, fields) == [prefix |-> prefix, text |-> text, fields |-> fields]

Returns(b, ret) == [exc |-> "none", msg |-> "", ret |-> ret, book |-> b]

Raises(b, exc, msg) == [exc |-> exc, msg |-> msg, ret |-> None, book |-> b]

\* input_error.inner: what the decorated handler returns, or that the
\* exception is none of the three caught and propagates
InputError(out) ==
    IF out.exc = "none" THEN [raised |-> FALSE, ret |-> out.ret]
    ELSE IF out.exc = "ValueError"
    THEN [raised |-> FALSE, ret |-> Msg("Error: ", out.msg, <<>>)]
    ELSE IF out.exc = "KeyError"
    THEN [raised |-> FALSE, ret |-> Msg("Error: ", "Contact not found", <<>>)]
    ELSE IF out.exc = "IndexError"
    THEN [raised |-> FALSE,
          ret |-> Msg("Error: ",
                      "Missing arguments. Please provide enough information.",
                      <<>>)]
    ELSE [raised |-> TRUE, ret |-> None]

\* a mutant of AddContact: the new record is put in the book before its
\* phone is validated
AddContactRecordFirst(a, b) ==
    IF Len(a) < 2 THEN Raises(b, "IndexError", "list index out of range")
    ELSE
      LET name == a[1]
          phone == a[2]
          i == Find(b, name)
      IN  IF i = 0
          THEN LET r == AddPhone(RecordInit(name), phone)
               IN  IF r.exc # "none"
                   THEN Raises(AddRecord(b, RecordInit(name)), r.exc, r.msg)
                   ELSE Returns(AddRecord(b, r.value),
                                Msg("", "Added contact {name} with phone {phone}",
                                    <<name, phone>>))
          ELSE LET r == AddPhone(b[i], phone)
               IN  IF r.exc # "none" THEN Raises(b, r.exc, r.msg)
                   ELSE Returns([b EXCEPT ![i] = r.value],
                                Msg("", "Added phone {phone} to contact {name}",
                                    <<phone, name>>))

\* add_contact
AddContact(a, b) ==
    IF Len(a) < 2 THEN Raises(b, "IndexError", "list index out of range")
    ELSE
      LET name == a[1]
          phone == a[2]
          i == Find(b, name)
      IN  IF i = 0
          THEN LET r == AddPhone(RecordInit(name), phone)
               IN  IF r.exc # "none" THEN Raises(b, r.exc, r.msg)
                   ELSE Returns(AddRecord(b, r.value),
                                Msg("", "Added contact {name} with phone {phone}",
                                    <<name, phone>>))
          ELSE LET r == AddPhone(b[i], phone)
               IN  IF r.exc # "none" THEN Raises(b, r.exc, r.msg)
                   ELSE Returns([b EXCEPT ![i] = r.value],
                                Msg("", "Added phone {phone} to contact {name}",
                                    <<phone, name>>))

\* change_contact: the unpacking of args raises ValueError unless there are
\* exactly three
ChangeContact(a, b) ==
    IF Len(a) < 3
    THEN Raises(b, "ValueError", "not enough values to unpack (expected 3, got {n})")
    ELSE IF Len(a) > 3
    THEN Raises(b, "ValueError", "too many values to unpack (expected 3)")
    ELSE
      LET name == a[1]
          old_phone == a[2]
          new_phone == a[3]
          i == Find(b, name)
      IN  IF i = 0
          THEN Returns(b, Msg("", "Contact with name: {name} not found", <<name>>))
          ELSE LET r == EditPhone(b[i], old_phone, new_phone)
               IN  IF r.exc # "none" THEN Raises(b, r.exc, r.msg)
                   ELSE Returns([b EXCEPT ![i] = r.value],
                                Msg("",
                                    "Phone number for {name} changed from {old_phone} to {new_phone}.",
                                    <<name, old_phone, new_phone>>))

\* show_phone
ShowPhone(a, b) ==
    IF Len(a) < 1 THEN Raises(b, "IndexError", "list index out of range")
    ELSE
      LET name == a[1]
          i == Find(b, name)
      IN  IF i = 0
          THEN Returns(b, Msg("", "Contact with name: {name} not found", <<name>>))
          ELSE Returns(b, Msg("", "Phone number for {name}: {phones}",
                              <<name, IF Len(b[i].phones) > 0 THEN b[i].phones
                                      ELSE <<"No phones">> >>))

\* show_all
ShowAll(b) ==
    IF Len(b) = 0 THEN Returns(b, Msg("", "Contact list is empty", <<>>))
    ELSE Returns(b, Msg("", "{book}", <<b>>))

\* add_birthday (the handler)
AddBirthdayCmd(a, b) ==
    IF Len(a) < 2 THEN Raises(b, "IndexError", "list index out of range")
    ELSE
      LET name == a[1]
          birthday_str == a[2]
          i == Find(b, name)
      IN  IF i = 0
          THEN Returns(b, Msg("", "Contact with name '{name}' not found", <<name>>))
          ELSE LET r == AddBirthday(b[i], birthday_str)
               IN  IF r.exc # "none" THEN Raises(b, r.exc, r.msg)
                   ELSE Returns([b EXCEPT ![i] = r.value],
                                Msg("", "Date of birth for {name} added: {birthday_str}",
                                    <<name, birthday_str>>))

\* show_birthday
ShowBirthday(a, b) ==
    IF Len(a) < 1 THEN Raises(b, "IndexError", "list index out of range")
    ELSE
      LET name == a[1]
          i == Find(b, name)
      IN  IF i = 0
          THEN Returns(b, Msg("", "Contact with name {name} not found", <<name>>))
          ELSE IF b[i].birthday = None
          THEN Returns(b, Msg("", "The contact {name} doesn't have a birthday", <<name>>))
          ELSE Returns(b, Msg("", "Birthday for {name}: {birthday}",
                              <<name, Strftime(b[i].birthday)>>))

\* birthdays: the default window of get_upcoming_birthdays is 7 days
Birthdays(a, b, t) ==
    LET u == GetUpcomingBirthdays(b, t, 7)
    IN  IF u.exc # "none" THEN Raises(b, u.exc, u.msg)
        ELSE IF Len(u.value) = 0
        THEN Returns(b, Msg("", "No upcoming birthdays this week", <<>>))
        ELSE Returns(b, Msg("", "Upcoming birthdays:{lines}", u.value))

(***************************************************************************)
(* The inputs the model draws from.                                        *)
(***************************************************************************)
Names == {"ann", "bob"}

Phone1 == Rep("1", 10)
Phone2 == Rep("2", 10)
PhoneShort == Rep("1", 9)
PhoneLong == Rep("1", 11)
PhoneAlpha == [Rep("1", 10) EXCEPT ![5] = "a"]
PhoneSup == Rep("sup2", 10)

PhoneInputs == {Phone1, Phone2, PhoneShort, PhoneLong, PhoneAlpha, PhoneSup}

OldPhoneInputs == {Phone1, Phone2, PhoneShort, PhoneSup}

\* "29.02.2020", "15.06.2020", and three that are no date: "30.02.2020",
\* "29.02.2021", "2020-06-15"
DateInputs ==
    { Strftime(<<2020, 2, 29>>), Strftime(<<2020, 6, 15>>),
      Strftime(<<2020, 2, 30>>), Strftime(<<2021, 2, 29>>),
      <<"2", "0", "2", "0", "-", "0", "6", "-", "1", "5">> }

\* the days on which a session runs
Todays == { <<2023, 3, 1>>, <<2024, 6, 10>> }

AddArgs ==
    {<<>>} \cup {<<n>> : n \in Names}
    \cup {<<n, p>> : n \in Names, p \in PhoneInputs}
    \cup {<<n, Phone2, Phone1>> : n \in Names}

ChangeArgs ==
    {<<>>} \cup {<<n>> : n \in Names}
    \cup {<<n, o>> : n \in Names, o \in {Phone1}}
    \cup {<<n, o, p>> : n \in Names, o \in OldPhoneInputs, p \in PhoneInputs}
    \cup {<<n, Phone1, Phone2, Phone2>> : n \in Names}

NameArgs == {<<>>} \cup {<<n>> : n \in Names}

BirthdayArgs == NameArgs \cup {<<n, d>> : n \in Names, d \in DateInputs}

\* a store left by an earlier session
SavedStore ==
    SaveData(<<[name |-> "ann", phones |-> <<Phone1>>, birthday |-> <<2020, 6, 15>>]>>,
             NoFile)

RECURSIVE BookPhones(_)
BookPhones(b) ==
    IF Len(b) = 0 THEN 0 ELSE Len(Head(b).phones) + BookPhones(Tail(b))

NoResult == Msg("", "", <<>>)

(***************************************************************************)
(* main(): the command loop.  One pass is three steps: the line is read    *)
(* and parsed (pc "loop" to "call"), the handler runs ("call" to "print"), *)
(* its result is printed ("print" to "loop").  cmd, args and result are    *)
(* the loop's locals command, args and result; after the print they are    *)
(* dead until the next pass overwrites them, and the model clears them.    *)
(* today is the system's calendar date.                                    *)
(***************************************************************************)
Init ==
    /\ pc = "start"
    /\ book = <<>>
    /\ store \in {NoFile, SavedStore}
    /\ cmd = ""
    /\ args = <<>>
    /\ result = NoResult
    /\ today \in Todays

\* book = load_data(); print("Welcome to the assistant bot!")
Start ==
    /\ pc = "start"
    /\ book' = LoadData(store)
    /\ pc' = "loop"
    /\ UNCHANGED <<store, cmd, args, result, today>>

\* the argument lists tried with each command word
ArgsOf(c) ==
    CASE c = "add" -> AddArgs
      [] c = "change" -> ChangeArgs
      [] c \in {"phone", "show-birthday"} -> NameArgs
      [] c = "add-birthday" -> BirthdayArgs
      [] OTHER -> {<<>>}

Commands ==
    {"add", "change", "phone", "all", "add-birthday", "show-birthday",
     "birthdays", "hello", "close", "exit", "remove", ""}

\* user_input = input(...); command, args = parse_input(user_input)
ReadCommand ==
    /\ pc = "loop"
    /\ \E c \in Commands : \E a \in ArgsOf(c) :
           /\ cmd' = c
           /\ args' = a
           /\ c = "add" => BookPhones(book) < MaxBookPhones
    /\ pc' = "call"
    /\ UNCHANGED <<book, store, result, today>>

\* the call of a decorated handler
Dispatch(c, out) ==
    /\ pc = "call"
    /\ cmd = c
    /\ book' = out.book
    /\ LET r == InputError(out)
       IN  IF r.raised
           THEN pc' = "crashed" /\ result' = NoResult
           ELSE pc' = "print" /\ result' = r.ret
    /\ UNCHANGED <<store, cmd, args, today>>

CmdAdd == Dispatch("add", AddContact(args, book))

CmdChange == Dispatch("change", ChangeContact(args, book))

CmdPhone == Dispatch("phone", ShowPhone(args, book))

CmdAll == Dispatch("all", ShowAll(book))

CmdAddBirthday == Dispatch("add-birthday", AddBirthdayCmd(args, book))

CmdShowBirthday == Dispatch("show-birthday", ShowBirthday(args, book))

CmdBirthdays == Dispatch("birthdays", Birthdays(args, book, today))

CmdHello ==
    /\ pc = "call"
    /\ cmd = "hello"
    /\ result' = Msg("", "How can I help you?", <<>>)
    /\ pc' = "print"
    /\ UNCHANGED <<book, store, cmd, args, today>>

\* any other first word, and the empty line
CmdUnknown ==
    /\ pc = "call"
    /\ cmd \notin Commands \ {"remove", ""}
    /\ result' = Msg("", "Unknown command. Try: ...", <<>>)
    /\ pc' = "print"
    /\ UNCHANGED <<book, store, cmd, args, today>>

\* a mutant of CmdExit: the loop ends without save_data
CmdExitNoSave ==
    /\ pc = "call"
    /\ cmd \in {"close", "exit"}
    /\ result' = Msg("", "Address book saved. Good bye!", <<>>)
    /\ pc' = "done"
    /\ UNCHANGED <<book, store, cmd, args, today>>

\* close / exit: save_data(book), the farewell is printed, the loop ends
CmdExit ==
    /\ pc = "call"
    /\ cmd \in {"close", "exit"}
    /\ store' = SaveData(book, store)
    /\ result' = Msg("", "Address book saved. Good bye!", <<>>)
    /\ pc' = "done"
    /\ UNCHANGED <<book, cmd, args, today>>

\* print(result), and back to the top of the loop
PrintResult ==
    /\ pc = "print"
    /\ pc' = "loop"
    /\ cmd' = ""
    /\ args' = <<>>
    /\ result' = NoResult
    /\ UNCHANGED <<book, store, today>>

Next ==
    \/ Start
    \/ ReadCommand
    \/ CmdAdd
    \/ CmdChange
    \/ CmdPhone
    \/ CmdAll
    \/ CmdAddBirthday
    \/ CmdShowBirthday
    \/ CmdBirthdays
    \/ CmdHello
    \/ CmdUnknown
    \/ CmdExit
    \/ PrintResult

Spec == Init /\ [][Next]_vars

(***************************************************************************)
(* get_upcoming_birthdays called on books of one and two records, over     *)
(* the days of three years (one of them a leap year) and several windows.  *)
(***************************************************************************)
DatesOf(years, months) ==
    {d \in years \X months \X (1..31) : IsDate(d)}

\* the days on which the query is made
QueryDays == DatesOf(2023..2025, {1, 2, 3, 6, 12})

\* the birthdays of the one-record books, and of the two-record books
BirthdaysWide == DatesOf({2020}, {1, 2, 3, 6, 12}) \cup {<<1999, 2, 28>>}

BirthdaysPair ==
    { <<2020, 2, 29>>, <<2020, 6, 15>>, <<2020, 6, 16>>, <<1999, 12, 31>>,
      <<2000, 1, 1>>, <<2020, 3, 1>> }

\* Record(name), then add_birthday(s) unless s is None
MakeRecord(name, s) ==
    IF s = None THEN RecordInit(name) ELSE AddBirthday(RecordInit(name), s).value

QueryBooks ==
    { AddRecord(<<>>, MakeRecord("ann", Strftime(d))) : d \in BirthdaysWide }
    \cup
    { AddRecord(AddRecord(<<>>, MakeRecord(n[1], s1)), MakeRecord(n[2], s2)) :
        n \in {<<"ann", "bob">>, <<"bob", "ann">>},
        s1 \in {Strftime(d) : d \in BirthdaysPair} \cup {None},
        s2 \in {Strftime(d) : d \in BirthdaysPair} \cup {None} }

Windows == {0, 2, 7, MaxWindow}

InitQuery ==
    /\ pc = "api"
    /\ book \in QueryBooks
    /\ today \in QueryDays
    /\ store = NoFile
    /\ cmd = ""
    /\ args = <<>>
    /\ result = Return(None)

\* result = book.get_upcoming_birthdays(days): the list, or the exception
CallUpcoming ==
    /\ pc = "api"
    /\ \E days \in Windows :
           /\ args' = <<days>>
           /\ result' = GetUpcomingBirthdays(book, today, days)
    /\ cmd' = "get_upcoming_birthdays"
    /\ pc' = "returned"
    /\ UNCHANGED <<book, store, today>>

NextQuery == CallUpcoming

SpecQuery == InitQuery /\ [][NextQuery]_vars

(***************************************************************************)
(* Properties.                                                             *)
(***************************************************************************)
Loaded == pc \in {"loop", "call", "print", "done"}

ErrorPrefix == "Error: "

MissingArgumentsText == "Missing arguments. Please provide enough information."

ContactNotFoundText == "Contact not found"

PhoneNotFoundText == "Old phone number not found."

\* the texts with which a handler reports an unknown contact
NotFoundTexts ==
    { "Contact with name: {name} not found",
      "Contact with name '{name}' not found",
      "Contact with name {name} not found" }

\* the command just run ended in a failure
Failed(r) == r.prefix = ErrorPrefix \/ r.text \in NotFoundTexts

\* exactly ten characters, each one of 0..9
TenDecimalDigits(s) == Len(s) = 10 /\ AllDecimal(s)

Contains(phones, p) == \E k \in 1..Len(phones) : phones[k] = p

Occurrences(phones, p) == Cardinality({k \in 1..Len(phones) : phones[k] = p})

\* C1: every phone stored in every record of the book is a string of exactly
\* ten characters, all of them decimal digits.
C1_StoredPhonesTenDecimalDigits ==
    Loaded =>
        \A i \in 1..Len(book) : \A k \in 1..Len(book[i].phones) :
            TenDecimalDigits(book[i].phones[k])

\* the step is a successful `change name old new` on a record holding old,
\* with new different from old
EditSucceeds ==
    /\ pc = "call" /\ cmd = "change" /\ Len(args) = 3
    /\ Find(book, args[1]) # 0
    /\ Contains(book[Find(book, args[1])].phones, args[2])
    /\ args[3] # args[2]
    /\ pc' = "print" /\ ~ Failed(result')

\* C2 as stated: a successful edit_phone(old, new) keeps the length, puts new
\* where old was, leaves the other positions alone, and the record no longer
\* contains old, also when it held old more than once.
C2_EditRemovesOld ==
    [][ EditSucceeds =>
          LET i == Find(book, args[1])
              before == book[i].phones
              after == book'[i].phones
          IN  /\ Len(after) = Len(before)
              /\ \E k \in 1..Len(before) :
                     /\ before[k] = args[2]
                     /\ after[k] = args[3]
                     /\ \A j \in 1..Len(before) : j # k => after[j] = before[j]
              /\ ~ Contains(after, args[2]) ]_vars

\* C2 amended: a successful edit_phone(old, new) keeps the length, puts new at
\* the FIRST position that held old and leaves every other position alone; so
\* old occurs once less, and is gone exactly when it occurred once.
C2_EditReplacesFirst ==
    [][ EditSucceeds =>
          LET i == Find(book, args[1])
              before == book[i].phones
              after == book'[i].phones
          IN  /\ Len(after) = Len(before)
              /\ \E k \in 1..Len(before) :
                     /\ before[k] = args[2]
                     /\ \A j \in 1..(k - 1) : before[j] # args[2]
                     /\ after[k] = args[3]
                     /\ \A j \in 1..Len(before) : j # k => after[j] = before[j]
              /\ Occurrences(after, args[2]) = Occurrences(before, args[2]) - 1
              /\ (~ Contains(after, args[2])) <=> (Occurrences(before, args[2]) = 1)
              /\ \A j \in 1..Len(book) : j # i => book'[j] = book[j] ]_vars

\* a change has succeeded on a record that held the old phone twice: the
\* record still holds it
C2_Witness ==
    /\ pc = "print" /\ cmd = "change" /\ Len(args) = 3 /\ ~ Failed(result)
    /\ args[2] # args[3]
    /\ Find(book, args[1]) # 0
    /\ Contains(book[Find(book, args[1])].phones, args[2])
    /\ Contains(book[Find(book, args[1])].phones, args[3])

\* C3: edit_phone(old, new) on a record that does not hold old fails with
\* "Old phone number not found.", whatever new is, and the record (its phones,
\* birthday and name) is unchanged.
C3_AbsentOldPhoneNotFound ==
    [][ ( /\ pc = "call" /\ cmd = "change" /\ Len(args) = 3
          /\ Find(book, args[1]) # 0
          /\ ~ Contains(book[Find(book, args[1])].phones, args[2]) )
        => /\ pc' = "print"
           /\ result'.prefix = ErrorPrefix
           /\ result'.text = PhoneNotFoundText
           /\ book' = book ]_vars

\* phone-not-found has been reported for a new value that is itself invalid,
\* on a record with phones and a birthday
C3_Witness ==
    /\ pc = "print" /\ cmd = "change" /\ Len(args) = 3
    /\ result.text = PhoneNotFoundText
    /\ ~ TenDecimalDigits(args[3])
    /\ Find(book, args[1]) # 0
    /\ Len(book[Find(book, args[1])].phones) > 0
    /\ book[Find(book, args[1])].birthday # None

\* the next occurrence of a birthday as the specification words it: this
\* year's month and day, or next year's if that is strictly before today
ClaimNextOccurrence(bday, t) ==
    IF DateLess(<<t[1], bday[2], bday[3]>>, t)
    THEN <<t[1] + 1, bday[2], bday[3]>>
    ELSE <<t[1], bday[2], bday[3]>>

\* Saturday + 2, Sunday + 1
ClaimAdjusted(d) ==
    IF Weekday(d) = 5 THEN AddDays(d, 2)
    ELSE IF Weekday(d) = 6 THEN AddDays(d, 1) ELSE d

ClaimInWindow(bday, t, days) ==
    LET diff == DaysBetween(ClaimAdjusted(ClaimNextOccurrence(bday, t)), t)
    IN  0 <= diff /\ diff <= days

Listed(entries, name) == Cardinality({k \in 1..Len(entries) : entries[k].name = name})

\* C4: for every book, today and window, get_upcoming_birthdays completes and
\* returns exactly one entry for each record that has a birthday whose
\* weekend-adjusted next occurrence is 0..window days after today, and no
\* entry for any other record; also for a birthday on 29 February.
C4_UpcomingCompletesAndIsExact ==
    pc = "returned" =>
        /\ result.exc = "none"
        /\ \A i \in 1..Len(book) :
               Listed(result.value, book[i].name) =
                   IF /\ book[i].birthday # None
                      /\ ClaimInWindow(book[i].birthday, today, args[1])
                   THEN 1 ELSE 0

\* the record an entry of the result was made from
RecordNamed(name) == book[Find(book, name)]

\* C5: every congratulation_date returned by get_upcoming_birthdays is a
\* working day (Monday to Friday), is not before today, and is at most 2 days
\* after the unadjusted next occurrence of the birthday (and not before it).
C5_CongratulationOnWorkingDay ==
    (pc = "returned" /\ result.exc = "none") =>
        \A k \in 1..Len(result.value) :
            LET parsed == Strptime(result.value[k].congratulation_date)
                next == NextBirthday(RecordNamed(result.value[k].name).birthday, today)
            IN  /\ parsed.exc = "none"
                /\ Weekday(parsed.value) \in 0..4
                /\ DaysBetween(parsed.value, today) >= 0
                /\ DaysBetween(parsed.value, next.value) \in 0..2

\* a result with two entries: one moved from a Saturday to the Monday, one
\* moved from a Sunday or not moved
C5_Witness ==
    /\ pc = "returned" /\ result.exc = "none"
    /\ Len(result.value) = 2
    /\ \E k \in 1..2 :
           /\ Weekday(NextBirthday(RecordNamed(result.value[k].name).birthday,
                                   today).value) = 5
           /\ Weekday(Strptime(result.value[k].congratulation_date).value) = 0

\* C6: for every book a session reaches, save_data(book) followed at once by
\* load_data() returns a book equal to it (names in order, phones, birthday),
\* whatever the store held before: a save replaces the earlier snapshot.
C6_SaveThenLoadIsIdentity ==
    Loaded => LoadData(SaveData(book, store)) = book

\* a book of two records, with two phones in one record and a birthday, that
\* differs from the snapshot the store holds
C6_Witness ==
    /\ pc = "loop" /\ store.exists
    /\ Len(book) = 2
    /\ LoadData(store) # book
    /\ \E i \in 1..2 : Len(book[i].phones) = 2 /\ book[i].birthday # None
    /\ \E i \in 1..2 : book[i].birthday = None

\* C7: `add name phone` with a valid phone creates the record [name, <<phone>>,
\* no birthday] at the end of the book when the book has no record under name,
\* and otherwise appends phone to the end of that record's phones, keeping its
\* earlier phones and its birthday; every other record is unchanged.
C7_AddCreatesOrAppends ==
    [][ ( /\ pc = "call" /\ cmd = "add" /\ Len(args) = 2
          /\ TenDecimalDigits(args[2]) )
        => /\ pc' = "print"
           /\ ~ Failed(result')
           /\ LET i == Find(book, args[1])
              IN  IF i = 0
                  THEN book' = Append(book, [name |-> args[1],
                                             phones |-> <<args[2]>>,
                                             birthday |-> None])
                  ELSE /\ Len(book') = Len(book)
                       /\ book'[i].name = book[i].name
                       /\ book'[i].birthday = book[i].birthday
                       /\ book'[i].phones = Append(book[i].phones, args[2])
                       /\ \A j \in 1..Len(book) : j # i => book'[j] = book[j] ]_vars

\* an add has appended a second, different phone to a record that has a
\* birthday, in a book of two records
C7_Witness ==
    /\ pc = "print" /\ cmd = "add" /\ Len(args) = 2 /\ ~ Failed(result)
    /\ Len(book) = 2
    /\ LET rec == book[Find(book, args[1])]
       IN  /\ Len(rec.phones) = 2
           /\ rec.phones[2] = args[2]
           /\ rec.phones[1] # args[2]
           /\ rec.birthday # None

\* the command just run had too few arguments
TooFewArguments ==
    \/ cmd \in {"add", "add-birthday"} /\ Len(args) < 2
    \/ cmd = "change" /\ Len(args) < 3
    \/ cmd \in {"phone", "show-birthday"} /\ Len(args) < 1

\* the command just run named a contact the book does not hold
NamesAbsentContact ==
    /\ \/ cmd = "add-birthday" /\ Len(args) >= 2
       \/ cmd = "change" /\ Len(args) = 3
       \/ cmd \in {"phone", "show-birthday"} /\ Len(args) >= 1
    /\ Find(book, args[1]) = 0

\* C8: every failure of a command handler is returned as a message prefixed
\* "Error: " and reported as its own kind: too few arguments as
\* MissingArguments, an absent contact as ContactNotFound; and no failure
\* leaves the handler as an exception.
C8_FailuresReportedByKind ==
    /\ pc # "crashed"
    /\ pc = "print" =>
          /\ Failed(result) => result.prefix = ErrorPrefix
          /\ TooFewArguments =>
                 result.prefix = ErrorPrefix /\ result.text = MissingArgumentsText
          /\ NamesAbsentContact =>
                 result.prefix = ErrorPrefix /\ result.text = ContactNotFoundText

\* C9: the store is read once, at the start (an absent store gives an empty
\* book); no step but close/exit changes it; and right after close/exit it
\* holds a snapshot equal to the book in memory.
C9_StoreWrittenOnlyOnExit ==
    [][ /\ (pc = "start" => book' = IF store.exists THEN PickleLoad(store.bytes) ELSE <<>>)
        /\ (store' # store => pc = "call" /\ cmd \in {"close", "exit"})
        /\ ((pc = "call" /\ cmd \in {"close", "exit"}) =>
               /\ pc' = "done"
               /\ book' = book
               /\ store'.exists
               /\ PickleLoad(store'.bytes) = book) ]_vars

\* a session that began with no store and made a book of two records has
\* ended, and the store holds the book
C9_Witness ==
    /\ pc = "done" /\ cmd \in {"close", "exit"}
    /\ store.exists
    /\ Len(book) = 2
    /\ \A i \in 1..2 : book[i].birthday = None /\ book[i].phones = <<Phone2>>

\* C10: a command that ends in a failure leaves the address book exactly as it
\* was before the command.
C10_FailureLeavesBookUnchanged ==
    [][ (pc = "call" /\ (pc' = "crashed" \/ (pc' = "print" /\ Failed(result'))))
        => book' = book ]_vars

\* add-birthday has failed on a record that has a birthday and phones
C10_Witness ==
    /\ pc = "print" /\ cmd = "add-birthday" /\ Len(args) = 2
    /\ result.prefix = ErrorPrefix
    /\ Find(book, args[1]) # 0
    /\ book[Find(book, args[1])].birthday # None
    /\ Len(book[Find(book, args[1])].phones) > 0

====
